---- MODULE Spec2Model ----
(***************************************************************************)
(* Model of src/App.tsx: the control panel (reference images, scenario,    *)
(* script, duration), the scene plan (prompts), the single-scene image     *)
(* generation handler, the batch image orchestrator and the toast list     *)
(* with its timers.                                                        *)
(* Every action is one synchronous block of a handler: the code from an    *)
(* event (a click, a service response) up to the next await.               *)
(***************************************************************************)
EXTENDS Bags, FiniteSets, Integers, Sequences, TLC

\* ------------------------------------------------------------------ bounds
MaxScenes == 5      \* longest plan the text service returns in the model
MaxClicks == 3      \* handler invocations: builds, generates, batch runs
MaxEdits == 3       \* inputs made in the control panel
MaxFiles == 5       \* most files picked in one image upload
MaxPad == 1         \* most white space around the words of a script file
MaxTime == 3        \* ticks (of half the toast timeout) the clock runs
NumIds == 2         \* distinct values Math.random yields for toast ids

\* ------------------------------------------------------- program constants
SCENE_DURATION_SECONDS == 8
MAX_REFERENCE_IMAGES == 3
MAX_CONCURRENT_GENERATIONS == 4
WORDS_PER_MINUTE == 150     \* Math.ceil(wordCount / 150)
TOAST_TIMEOUT == 5000       \* setTimeout(..., 5000), milliseconds

VARIABLES
    scenario,           \* useState(""): a string, as a sequence of characters
    duration,           \* useState(1): a number, NaN included
    referenceImages,    \* useState<ImageFile[]>([])
    scriptFileName,     \* useState<string | null>(null)
    scriptContent,      \* useState<string | null>(null)
    uploads,            \* handleImageUpload invocations awaiting Promise.all
    reads,              \* FileReader.readAsText calls that have not loaded
    edits,              \* number of inputs made in the control panel so far
    request,            \* what the last generateContent request carried
    prompts,            \* useState<ScenePrompt[]>: the scene sequence
    isBuilding,         \* useState(false)
    isBatchGenerating,  \* useState(false)
    toasts,             \* useState<ToastMessage[]>
    timers,             \* the setTimeout callbacks of addToast, oldest first
    issued,             \* id and persistence of every toast posted so far
    now,                \* the clock, in milliseconds
    calls,              \* bag of outstanding generateImageFromPrompt calls
    runs,               \* locals of every handleGenerateAllImages invocation
    buildNo,            \* number of buildPrompts invocations so far
    clicks,             \* number of handler invocations so far
    served              \* per run, the outcomes the image service returned

\* the state of the control panel
panel == <<scenario, duration, referenceImages, scriptFileName, scriptContent,
           uploads, reads, edits>>

\* the toast list and its timers
channel == <<toasts, timers, issued>>

vars == <<panel, request, prompts, isBuilding, isBatchGenerating, channel, now,
          calls, runs, buildNo, clicks, served>>

\* ------------------------------------------------------------------ values
\* null, and a value that is not null
Null == <<>>
Some(v) == <<v>>

\* a number of JavaScript: an integer or NaN
NaN == [nan |-> TRUE, val |-> 0]
Num(n) == [nan |-> FALSE, val |-> n]

\* x > 0: false for NaN
GreaterThanZero(x) == ~x.nan /\ x.val > 0

\* Math.ceil(a / b) for an integer a and b > 0
Ceil(a, b) == -((-a) \div b)

\* ----------------------------------------------------------------- strings
\* a string is the sequence of its characters; \s matches white space
IsSpace(ch) == ch \in {" ", "\n"}

RECURSIVE TrimStart(_)
TrimStart(str) ==
    IF str # <<>> /\ IsSpace(Head(str)) THEN TrimStart(Tail(str)) ELSE str

RECURSIVE TrimEnd(_)
TrimEnd(str) ==
    IF str # <<>> /\ IsSpace(str[Len(str)])
    THEN TrimEnd(SubSeq(str, 1, Len(str) - 1)) ELSE str

\* str.trim()
Trim(str) == TrimEnd(TrimStart(str))

\* text.split(/\s+/).length: the separators are the maximal runs of white
\* space, and split returns one piece more than there are separators
SplitLength(text) ==
    1 + Cardinality({k \in DOMAIN text :
                        IsSpace(text[k]) /\ (k = 1 \/ ~IsSpace(text[k - 1]))})

DigitValue ==
    [ch \in {"0", "1", "2", "3", "4", "5", "6", "7", "8", "9"} |->
        CASE ch = "0" -> 0 [] ch = "1" -> 1 [] ch = "2" -> 2 [] ch = "3" -> 3
          [] ch = "4" -> 4 [] ch = "5" -> 5 [] ch = "6" -> 6 [] ch = "7" -> 7
          [] ch = "8" -> 8 [] ch = "9" -> 9]

RECURSIVE LeadingDigits(_, _)
LeadingDigits(str, acc) ==
    IF str # <<>> /\ Head(str) \in DOMAIN DigitValue
    THEN LeadingDigits(Tail(str), 10 * acc + DigitValue[Head(str)])
    ELSE acc

\* parseInt(str, 10): an optional sign and the leading digits, NaN without
\* a leading digit
ParseInt(str) ==
    LET t == TrimStart(str)
        neg == t # <<>> /\ Head(t) = "-"
        body == IF neg THEN Tail(t) ELSE t
    IN  IF body = <<>> \/ Head(body) \notin DOMAIN DigitValue
        THEN NaN
        ELSE Num((IF neg THEN -1 ELSE 1) * LeadingDigits(body, 0))

\* ------------------------------------------------------------ scene records
NoImage == <<>>

\* the image the service returns for a prompt
GenerateImage(imagePrompt) == <<"img", imagePrompt[1], imagePrompt[2]>>

\* a record as JSON.parse yields it: the optional fields are absent
ScenePrompt(plan, k) ==
    [id |-> k, phase |-> "phase", imagePrompt |-> <<plan, k>>,
     videoPrompt |-> <<"video", plan, k>>, generatedImageUrl |-> NoImage,
     isLoading |-> FALSE, generationFailed |-> FALSE]

\* the plan of n scenes returned for build number plan, ids 1..n
GeneratedData(plan, n) == [k \in 1..n |-> ScenePrompt(plan, k)]

PlanLens == {1, MaxScenes}

\* prev.map(p => p.id === id ? { ...p, isLoading: true, generationFailed: false } : p)
SetPending(ps, id) ==
    [k \in DOMAIN ps |->
        IF ps[k].id = id
        THEN [ps[k] EXCEPT !.isLoading = TRUE, !.generationFailed = FALSE]
        ELSE ps[k]]

\* prev.map(p => p.id === id ? { ...p, generatedImageUrl: imageUrl, isLoading: false } : p)
SetSucceeded(ps, id, imageUrl) ==
    [k \in DOMAIN ps |->
        IF ps[k].id = id
        THEN [ps[k] EXCEPT !.generatedImageUrl = imageUrl, !.isLoading = FALSE]
        ELSE ps[k]]

\* prev.map(p => p.id === id ? { ...p, isLoading: false, generationFailed: true } : p)
SetFailedAll(ps, id) ==
    [k \in DOMAIN ps |->
        [ps[k] EXCEPT !.isLoading = FALSE, !.generationFailed = TRUE]]
SetFailed(ps, id) ==
    [k \in DOMAIN ps |->
        IF ps[k].id = id
        THEN [ps[k] EXCEPT !.isLoading = FALSE, !.generationFailed = TRUE]
        ELSE ps[k]]

\* the update a settling call applies to the sequence
Settled(ps, c, ok) ==
    IF ok THEN SetSucceeded(ps, c.id, GenerateImage(c.imagePrompt))
          ELSE SetFailed(ps, c.id)

\* prompts.find(p => p.id === id)
FindOrFirst(ps, id) ==
    LET ks == {k \in DOMAIN ps : ps[k].id = id}
    IN  IF ps = <<>> THEN 0
        ELSE IF ks = {} THEN 1 ELSE CHOOSE k \in ks : \A j \in ks : k <= j
Find(ps, id) ==
    LET ks == {k \in DOMAIN ps : ps[k].id = id}
    IN  IF ks = {} THEN 0 ELSE CHOOSE k \in ks : \A j \in ks : k <= j

\* prompts.filter(p => !p.generatedImageUrl); of a captured record the
\* handler reads id and imagePrompt only
RECURSIVE FilterPending(_)
FilterPending(ps) ==
    IF ps = <<>> THEN <<>>
    ELSE IF Head(ps).generatedImageUrl = NoImage
         THEN <<[id |-> Head(ps).id, imagePrompt |-> Head(ps).imagePrompt]>>
              \o FilterPending(Tail(ps))
         ELSE FilterPending(Tail(ps))

\* pendingPrompts.slice(i, i + chunkSize), i counted from 0
ChunkShort(pending, i) ==
    SubSeq(pending, i + 1,
           IF i + MAX_CONCURRENT_GENERATIONS - 1 < Len(pending)
           THEN i + MAX_CONCURRENT_GENERATIONS - 1 ELSE Len(pending))
Chunk(pending, i) ==
    SubSeq(pending, i + 1,
           IF i + MAX_CONCURRENT_GENERATIONS < Len(pending)
           THEN i + MAX_CONCURRENT_GENERATIONS ELSE Len(pending))

\* the optimistic updates of chunk.map(...), member after member
RECURSIVE SetPendingAll(_, _)
SetPendingAll(ps, chunk) ==
    IF chunk = <<>> THEN ps
    ELSE SetPendingAll(SetPending(ps, Head(chunk).id), Tail(chunk))

\* the calls chunk.map(...) issues for run r
ChunkCallsCurrent(chunk, r) ==
    SetToBag({[id |-> chunk[k].id, imagePrompt |-> chunk[k].imagePrompt, run |-> r]
              : k \in {m \in DOMAIN chunk :
                         \E q \in DOMAIN prompts :
                            /\ prompts[q].id = chunk[m].id
                            /\ prompts[q].generatedImageUrl = NoImage}})
ChunkCalls(chunk, r) ==
    SetToBag({[id |-> chunk[k].id, imagePrompt |-> chunk[k].imagePrompt, run |-> r]
              : k \in DOMAIN chunk})

\* ------------------------------------------------------------------- toasts
\* the values Math.random().toString(36).substr(2, 9) takes
ToastIds == 1..NumIds

\* an id no earlier toast has: while no toast is removed nothing reads the
\* ids, and the handlers are given this one
FreshId == BagCardinality(issued) + 1

\* setToasts((prev) => [...prev, { ...toast, id }])
WithToast(ts, toast, id) ==
    Append(ts, [id |-> id, type |-> toast.type, title |-> toast.title,
                message |-> toast.message, persistent |-> toast.persistent])

\* if (!toast.persistent) setTimeout(() => removeToast(id), 5000)
TimerForEvery(tms, toast, id) ==
    Append(tms, [id |-> id, due |-> now + TOAST_TIMEOUT])
WithTimer(tms, toast, id) ==
    IF ~toast.persistent
    THEN Append(tms, [id |-> id, due |-> now + TOAST_TIMEOUT])
    ELSE tms

\* addToast(toast), Math.random yielding id
addToast(toast, id) ==
    /\ toasts' = WithToast(toasts, toast, id)
    /\ timers' = WithTimer(timers, toast, id)
    /\ issued' = issued (+) SetToBag({[id |-> id, persistent |-> toast.persistent]})

\* prev.filter((t) => t.id !== id)
WithoutAny(ts, id) == <<>>
Without(ts, id) == SelectSeq(ts, LAMBDA t : t.id # id)

BatchToast(successCount, failureCount) ==
    [type |-> IF failureCount > 0 THEN "warning" ELSE "success",
     title |-> <<"Batch Generation Complete">>,
     message |-> <<successCount, failureCount>>,
     persistent |-> TRUE]

SceneErrorPersistent(id) ==
    [type |-> "error", title |-> <<"Scene Error", id>>,
     message |-> <<"Failed to generate image.">>, persistent |-> TRUE]
SceneErrorToast(id) ==
    [type |-> "error", title |-> <<"Scene Error", id>>,
     message |-> <<"Failed to generate image.">>, persistent |-> FALSE]

PlanToast(ok, n) ==
    [type |-> IF ok THEN "success" ELSE "error",
     title |-> IF ok THEN <<"Prompts Generated">> ELSE <<"Generation Failed">>,
     message |-> <<n>>, persistent |-> FALSE]

\* ---------------------------------------------------------------- the calls
CallsOf(r) == {c \in BagToSet(calls) : c.run = r}

Outstanding == BagCardinality(calls)

OutstandingOf(r) ==
    LET S == CallsOf(r)
    IN  BagCardinality([c \in S |-> calls[c]])

OutstandingFor(id) ==
    LET S == {c \in BagToSet(calls) : c.id = id}
    IN  BagCardinality([c \in S |-> calls[c]])

One(c) == SetToBag({c})

\* --------------------------------------------------------------------- Init
Init ==
    /\ scenario = <<>>
    /\ duration = Num(1)
    /\ referenceImages = <<>>
    /\ scriptFileName = Null
    /\ scriptContent = Null
    /\ uploads = {}
    /\ reads = {}
    /\ edits = 0
    /\ request = Null
    /\ timers = <<>>
    /\ issued = EmptyBag
    /\ now = 0
    /\ prompts = <<>>
    /\ isBuilding = FALSE
    /\ isBatchGenerating = FALSE
    /\ toasts = <<>>
    /\ calls = EmptyBag
    /\ runs = <<>>
    /\ buildNo = 0
    /\ clicks = 0
    /\ served = [r \in 0..MaxClicks |-> [ok |-> 0, fail |-> 0]]

\* ------------------------------------------------------------ buildPrompts
\* the build button is enabled: disabled={!canBuild || isBuilding || !hasApiKey}
\* (canBuild and hasApiKey are inputs of the control panel, taken as given)
BuildEnabled == ~isBuilding

\* Math.ceil((duration * 60) / SCENE_DURATION_SECONDS)
TotalScenesFloor(d) ==
    IF d.nan THEN NaN ELSE Num((d.val * 60) \div SCENE_DURATION_SECONDS)
TotalScenes(d) ==
    IF d.nan THEN NaN ELSE Num(Ceil(d.val * 60, SCENE_DURATION_SECONDS))

\* ${scriptContent || scenario}: null and the empty string are falsy
Narrative(content, scen) ==
    IF content # Null /\ content[1] # <<>> THEN content[1] ELSE scen

\* what the system instruction of the request carries
BuildRequest ==
    [narrative |-> Narrative(scriptContent, scenario),
     duration |-> duration,
     totalScenes |-> TotalScenes(duration)]

\* buildPrompts up to the await of ai.models.generateContent
ClickBuildKeeping ==
    /\ BuildEnabled
    /\ clicks < MaxClicks
    /\ clicks' = clicks + 1
    /\ isBuilding' = TRUE
    /\ buildNo' = buildNo + 1
    /\ request' = Some(BuildRequest)
    /\ UNCHANGED <<panel, prompts, isBatchGenerating, channel, now, calls, runs,
                   served>>
ClickBuild ==
    /\ BuildEnabled
    /\ clicks < MaxClicks
    /\ clicks' = clicks + 1
    /\ isBuilding' = TRUE
    /\ prompts' = <<>>
    /\ buildNo' = buildNo + 1
    /\ request' = Some(BuildRequest)
    /\ UNCHANGED <<panel, isBatchGenerating, channel, now, calls, runs, served>>

\* the scene sequence installed by a successful plan generation
InstallPlan(ps, generatedData) == generatedData

\* what generateContent can come back with: the call rejects, the response
\* has no text, the text is not JSON, the text is the JSON of value
Rejected == [kind |-> "rejected", value |-> <<>>]
NoText == [kind |-> "notext", value |-> <<>>]
NotJson == [kind |-> "notjson", value |-> <<>>]
Json(value) == [kind |-> "json", value |-> value]

\* message: error instanceof Error ? error.message : "Unknown error"
PlanErrorToast(response) ==
    [PlanToast(FALSE, 0) EXCEPT !.message = <<response.kind>>]

\* the whole try block runs to its end: the call resolves, response.text
\* is truthy and JSON.parse returns
ParsedUnchecked(response) == TRUE
Parsed(response) == response.kind = "json"

\* buildPrompts after the await
BuildRespond(response) ==
    /\ isBuilding
    /\ IF Parsed(response)
       THEN /\ prompts' = InstallPlan(prompts, response.value)
            /\ addToast(PlanToast(TRUE, Len(response.value)), FreshId)
       ELSE /\ prompts' = prompts
            /\ addToast(PlanErrorToast(response), FreshId)
    /\ isBuilding' = FALSE
    /\ UNCHANGED <<panel, request, isBatchGenerating, now, calls, runs,
                   buildNo, clicks, served>>

\* buildPrompts after the await: the service answered with a plan of n
\* scenes (ok) or the call / the parse threw (~ok)
BuildSettle(ok, n) ==
    BuildRespond(IF ok THEN Json(GeneratedData(buildNo, n)) ELSE Rejected)

\* ----------------------------------------------------- handleGenerateImage
\* handleGenerateImage(id) up to the await of generateImageFromPrompt
handleGenerateImage(id) ==
    LET k == Find(prompts, id)
    IN  IF k = 0
        THEN /\ clicks' = clicks + 1
             /\ UNCHANGED <<panel, request, prompts, isBuilding,
                            isBatchGenerating, channel, now, calls, runs,
                            buildNo, served>>
        ELSE /\ prompts' = SetPending(prompts, id)
             /\ calls' = calls (+) One([id |-> id,
                                        imagePrompt |-> prompts[k].imagePrompt,
                                        run |-> 0])
             /\ clicks' = clicks + 1
             /\ UNCHANGED <<panel, request, isBuilding, isBatchGenerating,
                            channel, now, runs, buildNo, served>>

\* PromptCard: with an image the Regenerate button is rendered, without one
\* the Generate Image button is rendered unless the record is loading;
\* both carry disabled={isBatchGenerating}
GenerateButtonRendered(p) == p.generatedImageUrl # NoImage \/ ~p.isLoading
GenerateButtonEnabled(p) ==
    /\ ~isBatchGenerating
    /\ (p.generatedImageUrl # NoImage \/ ~p.isLoading)

ClickGenerate(k) ==
    /\ k \in DOMAIN prompts
    /\ GenerateButtonEnabled(prompts[k])
    /\ clicks < MaxClicks
    /\ handleGenerateImage(prompts[k].id)

\* handleGenerateImage after the await: the call c resolved (ok) or threw
SingleSettle(c, ok) ==
    /\ c \in BagToSet(calls)
    /\ c.run = 0
    /\ calls' = calls (-) One(c)
    /\ prompts' = Settled(prompts, c, ok)
    /\ IF ok THEN UNCHANGED channel
             ELSE addToast(SceneErrorToast(c.id), FreshId)
    /\ served' = [served EXCEPT ![0] =
                    IF ok THEN [@ EXCEPT !.ok = @ + 1]
                          ELSE [@ EXCEPT !.fail = @ + 1]]
    /\ UNCHANGED <<panel, request, isBuilding, isBatchGenerating, now, runs,
                   buildNo, clicks>>

\* ------------------------------------------------- handleGenerateAllImages
\* successCount++ in the try branch, failureCount++ in the catch branch
CountedAsSuccess(run, ok) == [run EXCEPT !.successCount = @ + 1]
Counted(run, ok) ==
    IF ok THEN [run EXCEPT !.successCount = @ + 1]
          ELSE [run EXCEPT !.failureCount = @ + 1]

\* await Promise.all(...): the group is settled when no call of run r is
\* left among the outstanding calls rest
GroupSettledRace(rest, r) == TRUE
GroupSettled(rest, r) == \A c \in BagToSet(rest) : c.run # r

\* the loop condition i < pendingPrompts.length
MoreGroupsWhileAny(pending, i) == i <= Len(pending)
MoreGroups(pending, i) == i < Len(pending)

\* setIsBatchGenerating(true) ahead of the loop
BatchFlagNotSet == FALSE
BatchFlagAtStart == TRUE

\* the locals of an invocation that has returned
Returned ==
    [pending |-> <<>>, i |-> 0, successCount |-> 0, failureCount |-> 0,
     active |-> FALSE]

\* handleGenerateAllImages up to the first await (or to its end when the
\* loop body never runs)
handleGenerateAllImages ==
    IF Len(prompts) = 0
    THEN /\ clicks' = clicks + 1
         /\ UNCHANGED <<panel, request, prompts, isBuilding, isBatchGenerating,
                        channel, now, calls, runs, buildNo, served>>
    ELSE LET pending == FilterPending(prompts)
             r == Len(runs) + 1
             chunk == Chunk(pending, 0)
             run == [pending |-> pending, i |-> 0, successCount |-> 0,
                     failureCount |-> 0, active |-> TRUE]
         IN  IF MoreGroups(pending, 0)
             THEN /\ isBatchGenerating' = BatchFlagAtStart
                  /\ prompts' = SetPendingAll(prompts, chunk)
                  /\ calls' = calls (+) ChunkCalls(chunk, r)
                  /\ runs' = Append(runs, run)
                  /\ clicks' = clicks + 1
                  /\ UNCHANGED <<panel, request, isBuilding, channel, now,
                                 buildNo, served>>
             ELSE /\ isBatchGenerating' = FALSE
                  /\ addToast(BatchToast(0, 0), FreshId)
                  /\ runs' = Append(runs, Returned)
                  /\ clicks' = clicks + 1
                  /\ UNCHANGED <<panel, request, prompts, isBuilding, now,
                                 calls, buildNo, served>>

\* the Generate All Images button is rendered when prompts.length > 0 and
\* carries disabled={isBatchGenerating}
GenerateAllEnabled == Len(prompts) > 0 /\ ~isBatchGenerating

ClickGenerateAll ==
    /\ GenerateAllEnabled
    /\ clicks < MaxClicks
    /\ handleGenerateAllImages

\* one member of a group settles: the member's continuation and, when it
\* is the last of its group, the continuation of the loop after Promise.all
BatchSettle(c, ok) ==
    /\ c \in BagToSet(calls)
    /\ c.run > 0
    /\ LET r == c.run
           rest == calls (-) One(c)
           ps == Settled(prompts, c, ok)
           run == Counted(runs[r], ok)
           i == run.i + MAX_CONCURRENT_GENERATIONS
           chunk == Chunk(run.pending, i)
       IN  /\ served' = [served EXCEPT ![r] =
                           IF ok THEN [@ EXCEPT !.ok = @ + 1]
                                 ELSE [@ EXCEPT !.fail = @ + 1]]
           /\ IF ~GroupSettled(rest, r)
              THEN /\ prompts' = ps
                   /\ calls' = rest
                   /\ runs' = [runs EXCEPT ![r] = run]
                   /\ UNCHANGED <<isBatchGenerating, channel>>
              ELSE IF MoreGroups(run.pending, i)
              THEN /\ prompts' = SetPendingAll(ps, chunk)
                   /\ calls' = rest (+) ChunkCalls(chunk, r)
                   /\ runs' = [runs EXCEPT ![r] = [run EXCEPT !.i = i]]
                   /\ UNCHANGED <<isBatchGenerating, channel>>
              ELSE /\ prompts' = ps
                   /\ calls' = rest
                   /\ runs' = [runs EXCEPT ![r] = Returned]
                   /\ isBatchGenerating' = FALSE
                   /\ addToast(BatchToast(run.successCount, run.failureCount),
                               FreshId)
    /\ UNCHANGED <<panel, request, isBuilding, now, buildNo, clicks>>

\* handleGenerateImage called as a function with an id no record of the
\* current sequence has
GenerateAbsent(id) ==
    /\ clicks < MaxClicks
    /\ \A k \in DOMAIN prompts : prompts[k].id # id
    /\ handleGenerateImage(id)

\* handleGenerateAllImages called as a function while the sequence is empty
GenerateAllOnEmpty ==
    /\ clicks < MaxClicks
    /\ Len(prompts) = 0
    /\ handleGenerateAllImages

\* handleGenerateAllImages called as a function, not through the button
\* while a run started earlier has not finished
DirectGenerateAll ==
    /\ clicks < MaxClicks
    /\ \E r \in DOMAIN runs : runs[r].active
    /\ handleGenerateAllImages

\* ------------------------------------------------------------ specifications
Next ==
    \/ ClickBuild
    \/ \E ok \in BOOLEAN, n \in PlanLens : BuildSettle(ok, n)
    \/ \E k \in 1..MaxScenes : ClickGenerate(k)
    \/ \E c \in BagToSet(calls), ok \in BOOLEAN : SingleSettle(c, ok)
    \/ ClickGenerateAll
    \/ \E c \in BagToSet(calls), ok \in BOOLEAN : BatchSettle(c, ok)

\* the application driven through its user interface
Spec == Init /\ [][Next]_vars

NextDirect == Next \/ DirectGenerateAll

\* the same with handleGenerateAllImages also called directly
SpecDirect == Init /\ [][NextDirect]_vars

NextDegenerate ==
    \/ Next
    \/ \E id \in 1..MaxScenes : GenerateAbsent(id)
    \/ GenerateAllOnEmpty

\* the user interface and the two handlers called on what they do not
\* act on: an id the sequence lacks, an empty sequence
SpecDegenerate == Init /\ [][NextDegenerate]_vars

\* ------------------------------------------------------ the control panel
\* !!scriptFileName
HasName(name) == name # Null /\ name[1] # ""

\* the scenario textarea and the duration input carry
\* disabled={!!scriptFileName}
FieldsEnabled == ~HasName(scriptFileName)

\* the strings typed into the scenario field
ScenarioInputs == {<<>>, <<" ">>, <<"a">>, <<" ", "a", "\n">>}

\* onChange={(e) => setScenario(e.target.value)}
SetScenario(value) ==
    /\ FieldsEnabled
    /\ edits < MaxEdits
    /\ edits' = edits + 1
    /\ scenario' = value
    /\ UNCHANGED <<duration, referenceImages, scriptFileName, scriptContent,
                   uploads, reads, request, prompts, isBuilding,
                   isBatchGenerating, channel, now, calls, runs, buildNo,
                   clicks, served>>

\* the values of the duration field (type="number"): empty, 0, -1, 2, 13
DurationInputs == {<<>>, <<"0">>, <<"-", "1">>, <<"2">>, <<"1", "3">>}

\* onChange={(e) => setDuration(parseInt(e.target.value, 10))}
SetDuration(value) ==
    /\ FieldsEnabled
    /\ edits < MaxEdits
    /\ edits' = edits + 1
    /\ duration' = ParseInt(value)
    /\ UNCHANGED <<scenario, referenceImages, scriptFileName, scriptContent,
                   uploads, reads, request, prompts, isBuilding,
                   isBatchGenerating, channel, now, calls, runs, buildNo,
                   clicks, served>>

\* the n files picked in upload number no, in the order of the file list
PickedFiles(no, n) == [k \in 1..n |-> [name |-> <<no, k>>]]

\* array.slice(0, end)
Slice(array, end) ==
    LET to == IF end < 0 THEN Len(array) + end ELSE end
    IN  SubSeq(array, 1, IF to > Len(array) THEN Len(array)
                         ELSE IF to < 0 THEN 0 ELSE to)

\* the ImageFile fileToDataUrl and dataUrlToBase64 make of a file
ImageFile(file) == [name |-> file.name, dataUrl |-> <<"data", file.name>>]

\* handleImageUpload up to the await of Promise.all: the files to convert
\* are cut to the room the store has at this moment
handleImageUpload(newFiles) ==
    /\ uploads' = uploads \cup
          {[no |-> edits + 1,
            picked |-> Len(newFiles),
            files |-> Slice(newFiles,
                            MAX_REFERENCE_IMAGES - Len(referenceImages))]}
    /\ edits' = edits + 1
    /\ UNCHANGED <<scenario, duration, referenceImages, scriptFileName,
                   scriptContent, reads, request, prompts, isBuilding,
                   isBatchGenerating, channel, now, calls, runs, buildNo,
                   clicks, served>>

UploadImages(n) ==
    /\ edits < MaxEdits
    /\ handleImageUpload(PickedFiles(edits + 1, n))

\* prev => [...prev, ...processed].slice(0, MAX_REFERENCE_IMAGES)
AddImagesUnclamped(prev, processed) == prev \o processed
AddImages(prev, processed) == Slice(prev \o processed, MAX_REFERENCE_IMAGES)

\* handleImageUpload after the await: every file of upload u is converted
ImagesConverted(u) ==
    /\ u \in uploads
    /\ uploads' = uploads \ {u}
    /\ referenceImages' =
          AddImages(referenceImages,
                    [k \in DOMAIN u.files |-> ImageFile(u.files[k])])
    /\ UNCHANGED <<scenario, duration, scriptFileName, scriptContent, reads,
                   edits, request, prompts, isBuilding, isBatchGenerating,
                   channel, now, calls, runs, buildNo, clicks, served>>

\* script files: pad blanks, n words with one blank between them, pad
\* line ends
ScriptText(lead, n, trail) ==
    [k \in 1..lead |-> " "]
    \o [k \in 1..(IF n = 0 THEN 0 ELSE 2 * n - 1) |->
           IF k % 2 = 1 THEN "a" ELSE " "]
    \o [k \in 1..trail |-> "\n"]

ScriptTexts ==
    {ScriptText(lead, n, trail) :
        lead \in 0..MaxPad, trail \in 0..MaxPad,
        n \in {0, WORDS_PER_MINUTE}}

\* handleScriptUpload: the name is set at once, the text when it is read
handleScriptUpload(text) ==
    /\ scriptFileName' = Some("script.txt")
    /\ reads' = reads \cup {[no |-> edits + 1, text |-> text]}
    /\ edits' = edits + 1
    /\ UNCHANGED <<scenario, duration, referenceImages, scriptContent,
                   uploads, request, prompts, isBuilding, isBatchGenerating,
                   channel, now, calls, runs, buildNo, clicks, served>>

\* the upload area is rendered while no script is named
UploadScript(text) ==
    /\ ~HasName(scriptFileName)
    /\ edits < MaxEdits
    /\ handleScriptUpload(text)

\* Math.ceil(wordCount / 150), wordCount = text.split(/\s+/).length
DurationOfWords(text) == Num(Ceil(Len(text), WORDS_PER_MINUTE))
DurationOf(text) == Num(Ceil(SplitLength(text), WORDS_PER_MINUTE))

\* reader.onload of read rd
ScriptLoaded(rd) ==
    /\ rd \in reads
    /\ reads' = reads \ {rd}
    /\ scriptContent' = Some(rd.text)
    /\ duration' = DurationOf(rd.text)
    /\ UNCHANGED <<scenario, referenceImages, scriptFileName, uploads, edits,
                   request, prompts, isBuilding, isBatchGenerating, channel,
                   now, calls, runs, buildNo, clicks, served>>

handleRemoveScript ==
    /\ scriptFileName' = Null
    /\ scriptContent' = Null
    /\ duration' = Num(1)
    /\ edits' = edits + 1
    /\ UNCHANGED <<scenario, referenceImages, uploads, reads, request,
                   prompts, isBuilding, isBatchGenerating, channel, now,
                   calls, runs, buildNo, clicks, served>>

\* the remove button is rendered while a script is named
RemoveScript ==
    /\ HasName(scriptFileName)
    /\ edits < MaxEdits
    /\ handleRemoveScript

\* canBuild of ControlPanel
canBuildAlways == TRUE
canBuild ==
    /\ Len(referenceImages) = MAX_REFERENCE_IMAGES
    /\ (HasName(scriptFileName) \/ Trim(scenario) # <<>>)
    /\ GreaterThanZero(duration)

\* the Generate Prompts button of the panel
PanelBuild ==
    /\ canBuild
    /\ ClickBuild

\* the fields the response schema requires of a scene
RequiredFields == {"id", "phase", "imagePrompt", "videoPrompt"}

\* a plan of two scenes, the second without field f
LackingField(plan, f) ==
    <<ScenePrompt(plan, 1),
      [g \in DOMAIN ScenePrompt(plan, 2) \ {f} |-> ScenePrompt(plan, 2)[g]]>>

\* what the text service answers to build number plan
Responses(plan) ==
    {Rejected, NoText, NotJson, Json(GeneratedData(plan, 1))}
    \cup {Json(LackingField(plan, f)) : f \in RequiredFields}

NextImages ==
    \/ \E n \in 1..MaxFiles : UploadImages(n)
    \/ \E u \in uploads : ImagesConverted(u)

\* the reference image store and its uploads
SpecImages == Init /\ [][NextImages]_vars

NextPanel ==
    \/ \E value \in ScenarioInputs : SetScenario(value)
    \/ \E value \in DurationInputs : SetDuration(value)
    \/ UploadImages(MAX_REFERENCE_IMAGES)
    \/ \E u \in uploads : ImagesConverted(u)
    \/ \E text \in ScriptTexts : UploadScript(text)
    \/ \E rd \in reads : ScriptLoaded(rd)
    \/ RemoveScript
    \/ PanelBuild

\* the control panel up to the request of a plan
SpecPanel == Init /\ [][NextPanel]_vars

NextPlan ==
    \/ ClickBuild
    \/ \E response \in Responses(buildNo) : BuildRespond(response)

\* plan generation with every kind of answer of the text service
SpecPlan == Init /\ [][NextPlan]_vars

\* ------------------------------------------------------- the toast channel
\* the toasts the handlers post
ToastsPosted == {SceneErrorToast(1), BatchToast(1, 0)}

\* a handler calls addToast(toast) and Math.random yields id
PostToast(toast, id) ==
    /\ clicks < MaxClicks
    /\ clicks' = clicks + 1
    /\ addToast(toast, id)
    /\ UNCHANGED <<panel, request, prompts, isBuilding, isBatchGenerating, now,
                   calls, runs, buildNo, served>>

\* removeToast(id): the close button of a toast (onClose(toast.id)), or a
\* call for an id that is not shown any more
DismissToast(id) ==
    /\ toasts' = Without(toasts, id)
    /\ UNCHANGED <<panel, request, prompts, isBuilding, isBatchGenerating,
                   timers, issued, now, calls, runs, buildNo, clicks, served>>

\* the callback of the oldest timer runs when its delay has passed
TimerFire ==
    /\ timers # <<>>
    /\ Head(timers).due <= now
    /\ toasts' = Without(toasts, Head(timers).id)
    /\ timers' = Tail(timers)
    /\ UNCHANGED <<panel, request, prompts, isBuilding, isBatchGenerating,
                   issued, now, calls, runs, buildNo, clicks, served>>

\* the length of a tick of the clock
TickLength == TOAST_TIMEOUT \div 2

\* time passes, unless a timer is due
Tick ==
    /\ now < MaxTime * TickLength
    /\ timers # <<>> => Head(timers).due > now
    /\ now' = now + TickLength
    /\ UNCHANGED <<panel, request, prompts, isBuilding, isBatchGenerating,
                   channel, calls, runs, buildNo, clicks, served>>

NextToast ==
    \/ \E toast \in ToastsPosted, id \in ToastIds : PostToast(toast, id)
    \/ \E id \in ToastIds : DismissToast(id)
    \/ TimerFire
    \/ Tick

\* the toast list with its timers and the user closing toasts
SpecToast == Init /\ [][NextToast]_vars

\* ------------------------------------------------ generation state of a record
\* the state of a record as its fields give it: Pending while isLoading,
\* Failed when generationFailed, Succeeded when it holds an image, else Idle
StateOf(p) ==
    IF p.isLoading THEN "Pending"
    ELSE IF p.generationFailed THEN "Failed"
    ELSE IF p.generatedImageUrl # NoImage THEN "Succeeded"
    ELSE "Idle"

ActiveRuns == {r \in DOMAIN runs : runs[r].active}

\* the group run r is waiting for
GroupOf(r) == Chunk(runs[r].pending, runs[r].i)

IsBatchToast(t) == t.title = <<"Batch Generation Complete">>

BatchToastsIn(ts) == Cardinality({k \in DOMAIN ts : IsBatchToast(ts[k])})

\* call c settles in the step
Settles(c) == CopiesIn(c, calls') < CopiesIn(c, calls)

\* --------------------------------------------------------------------- C1
\* C1: in every reachable state at most MAX_CONCURRENT_GENERATIONS (4)
\* image-generation calls are outstanding, single-scene and batch calls
\* counted together.
C1_CeilingRespected == Outstanding <= MAX_CONCURRENT_GENERATIONS

\* --------------------------------------------------------------------- C2
LoadingIn(ps, id) == \E k \in DOMAIN ps : ps[k].id = id /\ ps[k].isLoading

C2_CallsInCurrentGroup ==
    \A r \in ActiveRuns :
        /\ \A c \in CallsOf(r) :
              /\ calls[c] = 1
              /\ \E k \in DOMAIN GroupOf(r) :
                    /\ GroupOf(r)[k].id = c.id
                    /\ GroupOf(r)[k].imagePrompt = c.imagePrompt
        /\ OutstandingOf(r) + runs[r].successCount + runs[r].failureCount
              = runs[r].i + Len(GroupOf(r))

C2_LaterGroupsNotPending ==
    \A r \in ActiveRuns :
        (r \in DOMAIN runs' /\ runs'[r].active /\ runs'[r].i = runs[r].i)
        => \A j \in DOMAIN runs[r].pending :
              j > runs[r].i + MAX_CONCURRENT_GENERATIONS
              => ~(  LoadingIn(prompts', runs[r].pending[j].id)
                  /\ ~LoadingIn(prompts, runs[r].pending[j].id))

\* C2: within a batch run every outstanding call of the run belongs to the
\* group the run is waiting for, all members of that group are dispatched
\* together (outstanding + settled = group size), and while the run waits
\* for a group no member of a later group is set Pending.
C2_GroupsSequential ==
    [][C2_CallsInCurrentGroup' /\ C2_LaterGroupsNotPending]_vars

C2_Witness ==
    \E r \in ActiveRuns :
        /\ runs[r].i >= MAX_CONCURRENT_GENERATIONS
        /\ OutstandingOf(r) > 0
        /\ runs[r].failureCount > 0

\* --------------------------------------------------------------------- C3
\* C3: while a batch run has not finished, no further invocation of
\* handleGenerateAllImages takes effect: no new run starts, so no call is
\* issued and no aggregate notification is posted by a second invocation.
C3_SingleFlight ==
    [][ActiveRuns # {} => Len(runs') = Len(runs)]_vars

\* --------------------------------------------------------------------- C4
\* C4: a record holds an image if and only if it is Succeeded, i.e. neither
\* loading nor failed while holding it.
C4_ImageIffSucceeded ==
    \A k \in DOMAIN prompts :
        (prompts[k].generatedImageUrl # NoImage)
            <=> (StateOf(prompts[k]) = "Succeeded")

\* --------------------------------------------------------------------- C5
\* C5: for every scene id at most one image-generation call is outstanding.
C5_OneCallPerId == \A id \in 1..MaxScenes : OutstandingFor(id) <= 1

\* --------------------------------------------------------------------- C6
\* run r returns in the step
Returns(r) ==
    \/ r \in DOMAIN runs /\ runs[r].active /\ ~runs'[r].active
    \/ r \notin DOMAIN runs /\ r \in DOMAIN runs' /\ ~runs'[r].active

\* the scenes run r selected when it started
SelectedBy(r) ==
    IF r \in DOMAIN runs THEN runs[r].pending ELSE FilterPending(prompts)

C6_OneToastPerRun ==
    BatchToastsIn(toasts) = Cardinality(DOMAIN runs \ ActiveRuns)

C6_ToastOfRun(r) ==
    /\ Len(toasts') = Len(toasts) + 1
    /\ SubSeq(toasts', 1, Len(toasts)) = toasts
    /\ LET t == toasts'[Len(toasts')]
       IN  /\ IsBatchToast(t)
           /\ t.persistent
           /\ t.message = <<served'[r].ok, served'[r].fail>>
           /\ t.message[1] + t.message[2] = Len(SelectedBy(r))

\* C6: a batch run that completes posts exactly one aggregate notification;
\* it is persistent, its counts are the numbers of the run's calls the
\* service answered with success and with failure, and they add up to the
\* number of scenes the run selected; no other step posts one.
C6_AggregateNotification ==
    [][/\ C6_OneToastPerRun'
       /\ \A r \in 1..MaxClicks : Returns(r) => C6_ToastOfRun(r)
       /\ (\A r \in 1..MaxClicks : ~Returns(r))
             => BatchToastsIn(toasts') = BatchToastsIn(toasts)]_vars

C6_Witness ==
    \E k \in DOMAIN toasts :
        /\ IsBatchToast(toasts[k])
        /\ toasts[k].message[1] >= 2
        /\ toasts[k].message[2] >= 2

\* --------------------------------------------------------------------- C7
\* C7: every scene a run selected is dispatched by the run, and when the
\* run's call for a scene settles the scene's record is in the terminal
\* state of that call's outcome: Succeeded with the call's image after a
\* success, Failed after a failure, whatever the outcomes of the others.
C7_OwnOutcomeDecides ==
    [][/\ \A c \in BagToSet(calls) :
            (c.run > 0 /\ Settles(c))
            => \A k \in DOMAIN prompts' :
                  prompts'[k].id = c.id
                  => IF served'[c.run].ok > served[c.run].ok
                     THEN /\ StateOf(prompts'[k]) = "Succeeded"
                          /\ prompts'[k].generatedImageUrl
                                = GenerateImage(c.imagePrompt)
                     ELSE StateOf(prompts'[k]) = "Failed"
       /\ \A r \in ActiveRuns :
            Returns(r) => served'[r].ok + served'[r].fail = Len(runs[r].pending)
      ]_vars

\* --------------------------------------------------------------------- C8
C8_FlagCoversRun ==
    /\ ActiveRuns # {} => isBatchGenerating
    /\ (\E c \in BagToSet(calls) : c.run > 0) => isBatchGenerating

C8_ClearedAtTheEnd ==
    (isBatchGenerating /\ ~isBatchGenerating')
    => /\ ActiveRuns' = {}
       /\ \A c \in BagToSet(calls') : c.run = 0
       /\ Len(toasts') = Len(toasts) + 1
       /\ IsBatchToast(toasts'[Len(toasts')])

\* C8: isBatchGenerating is true from the dispatch of a run's first group
\* on: it is true whenever a run has not returned or a call of a run is
\* outstanding, and the step that clears it leaves no call of the run
\* outstanding and posts the aggregate notification.
C8_RunningFlag == [][C8_FlagCoversRun' /\ C8_ClearedAtTheEnd]_vars

\* a run of two groups has returned: the flag is clear, its notification is
\* posted and none of its calls is outstanding
C8_Witness ==
    /\ ~isBatchGenerating
    /\ runs # <<>>
    /\ ActiveRuns = {}
    /\ \A c \in BagToSet(calls) : c.run = 0
    /\ \E k \in DOMAIN toasts :
          /\ IsBatchToast(toasts[k])
          /\ toasts[k].message[1] + toasts[k].message[2]
                > MAX_CONCURRENT_GENERATIONS

\* --------------------------------------------------------------------- C9
Allowed(s, t) ==
    \/ s = t
    \/ s = "Idle" /\ t = "Pending"
    \/ s = "Pending" /\ t \in {"Succeeded", "Failed"}
    \/ s \in {"Succeeded", "Failed"} /\ t = "Pending"

\* C9: a scene record (the record at one position of one plan) only moves
\* Idle -> Pending, Pending -> Succeeded, Pending -> Failed and
\* Succeeded/Failed -> Pending.
C9_Transitions ==
    [][\A k \in DOMAIN prompts \cap DOMAIN prompts' :
          prompts'[k].imagePrompt = prompts[k].imagePrompt
          => Allowed(StateOf(prompts[k]), StateOf(prompts'[k]))]_vars

\* -------------------------------------------------------------------- C10
\* a plan is installed in the step
Installs == isBuilding /\ ~isBuilding' /\ prompts' # prompts

\* call c was issued for a record that is not in the sequence any more
Stale(c) == \A k \in DOMAIN prompts : prompts[k].imagePrompt # c.imagePrompt

\* C10: right after a plan is installed every record is Idle without an
\* image; every image a record holds was generated from that record's own
\* prompt; a call issued against an earlier plan changes no record when it
\* settles.
C10_PlanReplaced ==
    [][/\ Installs => \A k \in DOMAIN prompts' :
                         /\ StateOf(prompts'[k]) = "Idle"
                         /\ prompts'[k].generatedImageUrl = NoImage
       /\ \A k \in DOMAIN prompts' :
             prompts'[k].generatedImageUrl # NoImage
             => prompts'[k].generatedImageUrl
                   = GenerateImage(prompts'[k].imagePrompt)
       /\ \A c \in BagToSet(calls) :
             (Settles(c) /\ Stale(c))
             => \A k \in DOMAIN prompts \cap DOMAIN prompts' :
                   prompts'[k].id = c.id => prompts'[k] = prompts[k]
      ]_vars

\* -------------------------------------------------------------------- C11
\* the scene ids of the calls dispatched or settled in the step
TouchedIds ==
    {c.id : c \in {d \in BagToSet(calls) \cup BagToSet(calls') :
                      CopiesIn(d, calls') # CopiesIn(d, calls)}}

\* the call c that settles in the step was answered with success
SettlesOk(c) == Settles(c) /\ served'[c.run].ok > served[c.run].ok

C11_OnlyOwnRecord ==
    /\ Len(prompts') = Len(prompts)
    /\ \A k \in DOMAIN prompts :
          /\ prompts'[k].id = prompts[k].id
          /\ prompts'[k].imagePrompt = prompts[k].imagePrompt
          /\ prompts'[k] # prompts[k] => prompts[k].id \in TouchedIds

C11_OwnResult ==
    \A c \in BagToSet(calls) :
        Settles(c)
        => \A k \in DOMAIN prompts' :
              prompts'[k].id = c.id
              => /\ ~prompts'[k].isLoading
                 /\ IF SettlesOk(c)
                    THEN prompts'[k].generatedImageUrl
                            = GenerateImage(c.imagePrompt)
                    ELSE /\ prompts'[k].generationFailed
                         /\ prompts'[k].generatedImageUrl
                               = prompts[k].generatedImageUrl

\* C11: a step that dispatches or settles image calls leaves the length and
\* the order of the sequence alone and changes no record but those whose id
\* is the id of a call dispatched or settled in the step; the record of a
\* settling call ends with that call's result (its image, or the Failed
\* flag), so calls of one group settling in any order lose no update.
C11_TargetedUpdates ==
    [][calls' # calls => C11_OnlyOwnRecord /\ C11_OwnResult]_vars

\* two members of one group have settled, one with an image and one with a
\* failure, while a third member is still outstanding
C11_Witness ==
    \E r \in ActiveRuns :
        /\ OutstandingOf(r) > 0
        /\ \E j1, j2 \in DOMAIN GroupOf(r) :
              \E k1, k2 \in DOMAIN prompts :
                 /\ prompts[k1].id = GroupOf(r)[j1].id
                 /\ prompts[k2].id = GroupOf(r)[j2].id
                 /\ prompts[k1].generatedImageUrl
                       = GenerateImage(GroupOf(r)[j1].imagePrompt)
                 /\ ~prompts[k1].isLoading
                 /\ prompts[k2].generationFailed
                 /\ ~prompts[k2].isLoading

\* -------------------------------------------------------------------- C12
\* the positions of the records that hold no image
NoImageAt(ps) == {k \in DOMAIN ps : ps[k].generatedImageUrl = NoImage}

\* run r starts in the step
Starts(r) == r \notin DOMAIN runs /\ r \in DOMAIN runs'

\* the calls of run r issued in the step
NewCallsOf(r) ==
    {c \in BagToSet(calls') : c.run = r /\ CopiesIn(c, calls') > CopiesIn(c, calls)}

C12_Selects(r) ==
    LET S == NoImageAt(prompts)
    IN  IF runs'[r].active
        THEN /\ Len(runs'[r].pending) = Cardinality(S)
             /\ runs'[r].i = 0
             /\ \A k \in S :
                   LET j == Cardinality({m \in S : m <= k})
                   IN  /\ runs'[r].pending[j].id = prompts[k].id
                       /\ runs'[r].pending[j].imagePrompt = prompts[k].imagePrompt
        ELSE S = {}

C12_Group(r) ==
    LET n == Len(runs'[r].pending)
        i == runs'[r].i
        size == IF n - i >= MAX_CONCURRENT_GENERATIONS
                THEN MAX_CONCURRENT_GENERATIONS ELSE n - i
    IN  /\ i % MAX_CONCURRENT_GENERATIONS = 0
        /\ i < n
        /\ size >= 1
        /\ NewCallsOf(r) =
              {[id |-> runs'[r].pending[j].id,
                imagePrompt |-> runs'[r].pending[j].imagePrompt,
                run |-> r] : j \in (i + 1)..(i + size)}
        /\ Cardinality(NewCallsOf(r)) = size
        /\ \A c \in NewCallsOf(r) : CopiesIn(c, calls') = 1

\* C12: a batch run selects exactly the records without an image, in the
\* order of the sequence and whether or not they are Failed; it dispatches
\* them in consecutive groups of MAX_CONCURRENT_GENERATIONS (4), only the
\* last group may be smaller, and it returns after the last group, so n
\* selected scenes give ceil(n / 4) groups.
C12_SelectionAndGroups ==
    [][\A r \in 1..MaxClicks :
          /\ Starts(r) => C12_Selects(r)
          /\ (r \in DOMAIN runs' /\ runs'[r].active)
             => /\ (Starts(r) \/ runs'[r].i # runs[r].i) => C12_Group(r)
                /\ ~Starts(r)
                   => /\ runs'[r].pending = runs[r].pending
                      /\ runs'[r].i \in {runs[r].i,
                                         runs[r].i + MAX_CONCURRENT_GENERATIONS}
                      /\ runs'[r].i = runs[r].i => NewCallsOf(r) = {}
          /\ (r \in DOMAIN runs /\ Returns(r))
             => /\ runs[r].i + MAX_CONCURRENT_GENERATIONS >= Len(runs[r].pending)
                /\ NewCallsOf(r) = {}
      ]_vars

\* a run selected more than one group of scenes, a Failed one among them,
\* and waits for its first group
C12_Witness ==
    \E r \in ActiveRuns :
        /\ Len(runs[r].pending) > MAX_CONCURRENT_GENERATIONS
        /\ runs[r].i = 0
        /\ \E j \in DOMAIN runs[r].pending, k \in DOMAIN prompts :
              /\ prompts[k].id = runs[r].pending[j].id
              /\ prompts[k].imagePrompt = runs[r].pending[j].imagePrompt
              /\ prompts[k].generationFailed

\* -------------------------------------------------------------------- C13
\* the positions of the toasts that removeToast(id) keeps
KeptBy(id) == {k \in DOMAIN toasts : toasts[k].id # id}

\* the step removes exactly the toasts whose id is id
RemovesOnly(id) ==
    /\ Len(toasts') = Cardinality(KeptBy(id))
    /\ \A k \in KeptBy(id) :
          toasts'[Cardinality({m \in KeptBy(id) : m <= k})] = toasts[k]

\* a toast is posted in the step
Posts == BagCardinality(issued') = BagCardinality(issued) + 1

\* the oldest timer fires in the step
Fires == timers # <<>> /\ timers' = Tail(timers)

C13_TimerCoversToast ==
    /\ \A k \in DOMAIN toasts :
          ~toasts[k].persistent
          => \E j \in DOMAIN timers :
                /\ timers[j].id = toasts[k].id
                /\ timers[j].due <= now + TOAST_TIMEOUT
    /\ \A j \in DOMAIN timers : timers[j].due >= now

C13_Steps ==
    /\ Posts
       => LET t == toasts'[Len(toasts')]
          IN  /\ SubSeq(toasts', 1, Len(toasts)) = toasts
              /\ ~t.persistent
                 => /\ Len(timers') = Len(timers) + 1
                    /\ timers'[Len(timers')]
                          = [id |-> t.id, due |-> now + TOAST_TIMEOUT]
    /\ Fires
       => /\ Head(timers).due = now
          /\ RemovesOnly(Head(timers).id)
    /\ Len(toasts') < Len(toasts)
       => \E k \in DOMAIN toasts :
             /\ RemovesOnly(toasts[k].id)
             /\ \/ timers' = timers /\ now' = now
                \/ Fires /\ Head(timers).id = toasts[k].id
    /\ (~Posts /\ Len(toasts') >= Len(toasts)) => toasts' = toasts

\* C13: a toast that is not persistent gets a timer due 5000 ms after it is
\* posted, and when that timer fires (at its due time, not later) no toast
\* with its id is left; removeToast(id), from the close button or from a
\* timer, removes exactly the toasts with that id, persistent or not, and
\* changes nothing when no toast has the id; nothing else removes a toast.
C13_TimedRemoval == [][C13_TimerCoversToast' /\ C13_Steps]_vars

\* five seconds after it was posted a toast that is not persistent is about
\* to be removed by its timer, next to a toast that stays
C13_Witness ==
    /\ timers # <<>>
    /\ Head(timers).due = now
    /\ \E k, m \in DOMAIN toasts :
          /\ toasts[k].id = Head(timers).id
          /\ ~toasts[k].persistent
          /\ toasts[m].id # toasts[k].id

\* -------------------------------------------------------------------- C14
\* addToast drew id once only
Unique(id) ==
    LET S == {e \in BagToSet(issued) : e.id = id}
    IN  BagCardinality([e \in S |-> issued[e]]) = 1

\* the timer of the posted toast e has fired
Expired(e) ==
    /\ ~e.persistent
    /\ \A m \in DOMAIN timers : timers[m].id # e.id

C14_NoTimer ==
    \A k \in DOMAIN toasts :
        (toasts[k].persistent /\ Unique(toasts[k].id))
        => \A j \in DOMAIN timers : timers[j].id # toasts[k].id

C14_OnlyDismissed ==
    \A k \in DOMAIN toasts :
        (toasts[k].persistent /\ Unique(toasts[k].id))
        => \/ \E m \in DOMAIN toasts' : toasts'[m] = toasts[k]
           \/ /\ timers' = timers
              /\ now' = now
              /\ issued' = issued
              /\ RemovesOnly(toasts[k].id)

\* C14: a persistent toast whose id no other toast was given has no timer,
\* and no step removes it but removeToast called with its id while no timer
\* fires, that is the user closing it.
C14_PersistentStays == [][C14_NoTimer' /\ C14_OnlyDismissed]_vars

\* the aggregate toast of a batch run is still shown after the timer of
\* another toast has fired and more than five seconds have passed
C14_Witness ==
    /\ now > TOAST_TIMEOUT
    /\ \E k \in DOMAIN toasts :
          /\ IsBatchToast(toasts[k])
          /\ toasts[k].persistent
          /\ Unique(toasts[k].id)
    /\ \E e \in BagToSet(issued) : Expired(e)

\* -------------------------------------------------------------------- C15
\* the uploads whose conversions end in the step
Converted == uploads \ uploads'

C15_AtMostThree == Len(referenceImages) <= MAX_REFERENCE_IMAGES

C15_Conversion(u) ==
    LET room == MAX_REFERENCE_IMAGES - Len(referenceImages)
        take == IF Len(u.files) < room THEN Len(u.files) ELSE room
    IN  /\ Len(referenceImages') = Len(referenceImages) + take
        /\ \A k \in DOMAIN referenceImages :
              referenceImages'[k] = referenceImages[k]
        /\ \A k \in 1..take :
              referenceImages'[Len(referenceImages) + k].name = <<u.no, k>>
        /\ (u.picked > MAX_REFERENCE_IMAGES /\ referenceImages = <<>>)
           => [k \in DOMAIN referenceImages' |-> referenceImages'[k].name]
                 = <<<<u.no, 1>>, <<u.no, 2>>, <<u.no, 3>>>>
        /\ UNCHANGED channel

\* C15: the reference store never holds more than MAX_REFERENCE_IMAGES (3)
\* images, also when the conversions of several uploads overlap; a finished
\* upload appends its files in upload order as far as there is room, so
\* more than three files into an empty store leave the first three; the
\* files beyond the limit are dropped without a toast.
C15_StoreBounded ==
    [][/\ C15_AtMostThree'
       /\ \A u \in Converted : C15_Conversion(u)
       /\ Converted = {} => referenceImages' = referenceImages]_vars

\* two uploads overlapped: the store is full and the upload picked later
\* was converted first
C15_Witness ==
    /\ Len(referenceImages) = MAX_REFERENCE_IMAGES
    /\ referenceImages[1].name[1] > referenceImages[3].name[1]

\* -------------------------------------------------------------------- C16
\* the text of a script is loaded and is not the empty string
NonEmptyScriptLoaded == scriptContent # Null /\ scriptContent[1] # <<>>

\* the scenario holds a character that is not white space
ScenarioPresent == \E k \in DOMAIN scenario : ~IsSpace(scenario[k])

\* C16: canBuild is true if and only if there are exactly 3 reference
\* images, and a non-empty script is loaded or the scenario is not empty
\* after trimming, and duration > 0.
C16_CanBuildPlan ==
    canBuild <=> /\ Len(referenceImages) = MAX_REFERENCE_IMAGES
                 /\ (NonEmptyScriptLoaded \/ ScenarioPresent)
                 /\ ~duration.nan
                 /\ duration.val > 0

\* -------------------------------------------------------------------- C17
\* buildPrompts is invoked in the step
Builds == buildNo' = buildNo + 1

\* the text of the script file named in the panel: the one being read, or
\* the one loaded
UploadedText ==
    IF reads # {}
    THEN (CHOOSE rd \in reads : \A other \in reads : other.no <= rd.no).text
    ELSE IF scriptContent # Null THEN scriptContent[1] ELSE <<>>

\* C17: the narrative of a plan request is the text of the uploaded script
\* whenever a script is uploaded, and the scenario text whenever none is.
C17_OneNarrative ==
    [][Builds => request'[1].narrative =
                    IF HasName(scriptFileName) THEN UploadedText
                    ELSE scenario]_vars

\* -------------------------------------------------------------------- C18
\* the number of white-space delimited words of a text: the maximal runs
\* of characters that are not white space
WordCount(text) ==
    Cardinality({k \in DOMAIN text :
                    ~IsSpace(text[k]) /\ (k = 1 \/ IsSpace(text[k - 1]))})

\* the reads that load in the step
Loaded == reads \ reads'

\* C18: when a script is loaded the duration becomes
\* ceil(wordCount / 150), and 1 when that is less than 1.
C18_DerivedDuration ==
    [][\A rd \in Loaded :
          LET m == Ceil(WordCount(rd.text), WORDS_PER_MINUTE)
          IN  duration' = Num(IF m < 1 THEN 1 ELSE m)]_vars

\* -------------------------------------------------------------------- C19
\* buildPrompts settles in the step
PlanSettles == isBuilding /\ ~isBuilding'

\* C19: when plan generation settles isBuilding is false and exactly one
\* toast is posted; it is a success toast with a sequence installed whose
\* scenes all have id, phase, imagePrompt and videoPrompt, or an error
\* toast with no sequence installed.
C19_PlanOutcome ==
    [][PlanSettles
       => /\ Len(toasts') = Len(toasts) + 1
          /\ SubSeq(toasts', 1, Len(toasts)) = toasts
          /\ LET t == toasts'[Len(toasts')]
             IN  \/ /\ t.type = "error"
                    /\ prompts' = <<>>
                 \/ /\ t.type = "success"
                    /\ \A k \in DOMAIN prompts' :
                          RequiredFields \subseteq DOMAIN prompts'[k]]_vars

\* -------------------------------------------------------------------- C20
\* C20: the target scene count of a plan request made with a duration
\* greater than 0 is the least whole number of scenes of
\* SCENE_DURATION_SECONDS (8) that cover duration * 60 seconds.
C20_TargetSceneCount ==
    [][(Builds /\ GreaterThanZero(duration))
       => LET d == request'[1].duration.val
              n == request'[1].totalScenes
          IN  /\ request'[1].duration = duration
              /\ ~n.nan
              /\ n.val * SCENE_DURATION_SECONDS >= d * 60
              /\ (n.val - 1) * SCENE_DURATION_SECONDS < d * 60]_vars

\* a plan was requested for a duration whose seconds are no multiple of 8
C20_Witness ==
    /\ request # Null
    /\ request[1].duration.val > 1
    /\ (request[1].duration.val * 60) % SCENE_DURATION_SECONDS # 0
    /\ request[1].totalScenes.val * SCENE_DURATION_SECONDS
          > request[1].duration.val * 60

\* -------------------------------------------------------------------- C21
\* the single-scene calls issued in the step
NewSingleCalls ==
    {c \in BagToSet(calls') : c.run = 0 /\ CopiesIn(c, calls') > CopiesIn(c, calls)}

\* the records of scene id keep their image in the step
ImageKept(id) ==
    \A k \in DOMAIN prompts' :
        prompts'[k].id = id
        => prompts'[k].generatedImageUrl = prompts[k].generatedImageUrl

\* C21: handleGenerateImage on a scene of the plan leaves the record Pending
\* (loading, Failed flag cleared) when the call is issued; when the call
\* succeeds the record is Succeeded with the image returned; when it fails
\* the record is Failed and holds the image it held before.
C21_GenerateOne ==
    [][/\ \A c \in NewSingleCalls :
             \A k \in DOMAIN prompts' :
                prompts'[k].id = c.id
                => /\ StateOf(prompts'[k]) = "Pending"
                   /\ ~prompts'[k].generationFailed
                   /\ prompts'[k].generatedImageUrl = prompts[k].generatedImageUrl
       /\ \A c \in BagToSet(calls) :
             (c.run = 0 /\ Settles(c))
             => \A k \in DOMAIN prompts' :
                   prompts'[k].id = c.id
                   => IF SettlesOk(c)
                      THEN /\ StateOf(prompts'[k]) = "Succeeded"
                           /\ prompts'[k].generatedImageUrl
                                 = GenerateImage(c.imagePrompt)
                      ELSE /\ StateOf(prompts'[k]) = "Failed"
                           /\ ImageKept(c.id)
      ]_vars

\* -------------------------------------------------------------------- C22
\* the call c of handleGenerateImage throws in the step
SingleFails(c) == c.run = 0 /\ Settles(c) /\ ~SettlesOk(c)

\* the step appends one toast and nothing else happens to the toasts
PostsOne ==
    /\ Len(toasts') = Len(toasts) + 1
    /\ SubSeq(toasts', 1, Len(toasts)) = toasts

\* the records of the scenes other than id are what they were
OthersKept(id) ==
    /\ Len(prompts') = Len(prompts)
    /\ \A k \in DOMAIN prompts :
          prompts[k].id # id => prompts'[k] = prompts[k]

\* C22: a failed call of handleGenerateImage posts exactly one toast, of
\* type error, titled with the scene id and removed by a timer (it is not
\* persistent); the records of the other scenes, the other outstanding
\* calls, the batch runs and the plan request are left as they were.
C22_FailureContained ==
    [][\A c \in BagToSet(calls) :
          SingleFails(c)
          => /\ PostsOne
             /\ LET t == toasts'[Len(toasts')]
                IN  /\ t.type = "error"
                    /\ t.title = <<"Scene Error", c.id>>
                    /\ ~t.persistent
                    /\ Len(timers') = Len(timers) + 1
                    /\ timers'[Len(timers')].id = t.id
             /\ OthersKept(c.id)
             /\ calls' = calls (-) One(c)
             /\ runs' = runs
             /\ isBatchGenerating' = isBatchGenerating
             /\ isBuilding' = isBuilding
             /\ request' = request
      ]_vars

\* a scene error is shown while a batch run started beside the failed call
\* is still waiting for its calls
C22_Witness ==
    /\ \E k \in DOMAIN toasts :
          toasts[k].type = "error" /\ Len(toasts[k].title) = 2
    /\ ActiveRuns # {}
    /\ \E r \in ActiveRuns : OutstandingOf(r) > 0

\* -------------------------------------------------------------------- C23
\* every image-generation call eventually settles: a settle step that stays
\* possible is eventually taken, with either outcome
SpecSettling ==
    /\ Init /\ [][Next]_vars
    /\ WF_vars(\E c \in BagToSet(calls), ok \in BOOLEAN :
                   SingleSettle(c, ok) \/ BatchSettle(c, ok))

\* run r has returned and its aggregate toast has been posted
Finished(r) ==
    /\ r \in DOMAIN runs \ ActiveRuns
    /\ BatchToastsIn(toasts) >= Cardinality({q \in DOMAIN runs \ ActiveRuns : q <= r})

\* no record of a scene run r selected is loading after the step
NoneLeftPending(r) ==
    \A k \in DOMAIN prompts' :
        (\E j \in DOMAIN SelectedBy(r) : SelectedBy(r)[j].id = prompts'[k].id)
        => ~prompts'[k].isLoading

\* C23: when every image-generation call eventually settles, every batch
\* run eventually returns, whatever the outcomes of its calls: again and
\* again no run is active, every run that started has posted its aggregate
\* toast and isBatchGenerating is false; when a run returns no scene it
\* selected is loading.
C23_RunsFinish ==
    /\ []<>(/\ ActiveRuns = {}
            /\ \A r \in DOMAIN runs : Finished(r)
            /\ ~isBatchGenerating)
    /\ [][\A r \in 1..MaxClicks : Returns(r) => NoneLeftPending(r)]_vars

\* a run has returned after calls of it succeeded and calls of it failed
C23_Witness ==
    \E r \in DOMAIN runs :
        /\ Finished(r)
        /\ ~isBatchGenerating
        /\ served[r].ok > 0
        /\ served[r].fail > 0

\* -------------------------------------------------------------------- C24
\* C24: while no script is named (scriptFileName is null) scriptContent is
\* null, and a file read that completes while no script is named changes
\* neither scriptContent nor the duration.
C24_NoScriptNoContent ==
    [][/\ ~HasName(scriptFileName') => scriptContent' = Null
       /\ (~HasName(scriptFileName) /\ Loaded # {})
          => /\ scriptContent' = scriptContent
             /\ duration' = duration
      ]_vars

\* -------------------------------------------------------------------- C25
\* the positions in pendingPrompts of the group run r dispatches in the step
DispatchedPositions(r) ==
    LET n == Len(runs'[r].pending)
        i == runs'[r].i
    IN  {j \in 1..n : i < j /\ j <= i + MAX_CONCURRENT_GENERATIONS}

\* C25: the scenes a batch run works on are those it selected when it
\* started: while the run is active its selection does not change, and each
\* group it dispatches holds one call for every selected scene of the group,
\* with the id and the prompt text captured at the start, whatever the
\* record of that id holds by then and whether or not the plan still has it.
C25_FixedAtStart ==
    [][\A r \in ActiveRuns :
          /\ r \in DOMAIN runs'
          /\ runs'[r].active
             => /\ runs'[r].pending = runs[r].pending
                /\ runs'[r].i # runs[r].i
                   => \A j \in DispatchedPositions(r) :
                         CopiesIn([id |-> runs[r].pending[j].id,
                                   imagePrompt |-> runs[r].pending[j].imagePrompt,
                                   run |-> r], calls') = 1
      ]_vars

\* a later group of a run holds a call for a scene whose record obtained an
\* image from a single-scene call after the run selected it
C25_Witness ==
    \E r \in ActiveRuns :
        /\ runs[r].i >= MAX_CONCURRENT_GENERATIONS
        /\ \E c \in CallsOf(r), k \in DOMAIN prompts :
              /\ prompts[k].id = c.id
              /\ prompts[k].imagePrompt = c.imagePrompt
              /\ prompts[k].generatedImageUrl # NoImage

\* -------------------------------------------------------------------- C26
\* C26: while isBatchGenerating is true, and so from the start of a batch
\* run to its end, no call of handleGenerateImage is started: the Generate
\* Image and Regenerate buttons are disabled, and the single-scene calls
\* outstanding during a run were started before it.
C26_NoSingleStart ==
    [][/\ isBatchGenerating => NewSingleCalls = {}
       /\ ActiveRuns # {} => isBatchGenerating
       /\ \A r \in 1..MaxClicks : Starts(r) => NewSingleCalls = {}
      ]_vars

\* a single-scene call started before a batch run is outstanding during it
C26_Witness ==
    /\ isBatchGenerating
    /\ ActiveRuns # {}
    /\ CallsOf(0) # {}

\* -------------------------------------------------------------------- C27
\* buildPrompts settles in the step with its error toast
PlanFails ==
    /\ PlanSettles
    /\ Len(toasts') = Len(toasts) + 1
    /\ toasts'[Len(toasts')].type = "error"

\* C27: buildPrompts empties the scene sequence before it calls the text
\* service; the sequence is empty for as long as the call is outstanding
\* and is still empty when the call has failed, so the earlier plan and its
\* images are gone though no plan replaced them.
C27_EmptiedFirst ==
    [][/\ Builds => (isBuilding' /\ prompts' = <<>>)
       /\ isBuilding' => prompts' = <<>>
       /\ PlanFails => prompts' = <<>>
      ]_vars

\* a plan was installed and an image generated for it, a later plan
\* generation failed and the sequence is empty
C27_Witness ==
    /\ ~isBuilding
    /\ buildNo >= 2
    /\ prompts = <<>>
    /\ served[0].ok > 0
    /\ toasts # <<>>
    /\ toasts[Len(toasts)].title = <<"Generation Failed">>
    /\ \E k \in DOMAIN toasts : toasts[k].title = <<"Prompts Generated">>

\* -------------------------------------------------------------------- C28
\* the step leaves the records, the calls, the toasts, the batch flag and
\* the runs as they were
Quiet ==
    /\ prompts' = prompts
    /\ calls' = calls
    /\ toasts' = toasts
    /\ timers' = timers
    /\ isBatchGenerating' = isBatchGenerating
    /\ runs' = runs

\* an image handler is invoked in the step (every invocation is counted)
Invokes == clicks' # clicks /\ ~Builds

\* the handler invocations that issued no call and recorded no run
Degenerate ==
    clicks - buildNo - Len(runs)
        - (served[0].ok + served[0].fail + OutstandingOf(0))

\* C28: handleGenerateImage issues calls only for ids of the current
\* sequence, and an invocation with another id changes no record, issues
\* no call and posts no toast; handleGenerateAllImages on an empty sequence
\* does not set isBatchGenerating, posts no toast and starts no run; on a
\* sequence whose records all hold an image it issues no call, changes no
\* record and posts one aggregate toast with the counts 0 and 0.
C28_DegenerateInvocations ==
    [][Invokes
       => /\ \A c \in NewSingleCalls :
                \E k \in DOMAIN prompts : prompts[k].id = c.id
          /\ (calls' = calls /\ Len(runs') = Len(runs)) => Quiet
          /\ prompts = <<>> => Quiet
          /\ \A r \in 1..MaxClicks :
                (Starts(r) /\ NoImageAt(prompts) = {})
                => /\ calls' = calls
                   /\ prompts' = prompts
                   /\ ~runs'[r].active
                   /\ ~isBatchGenerating'
                   /\ PostsOne
                   /\ LET t == toasts'[Len(toasts')]
                      IN  /\ IsBatchToast(t)
                          /\ t.message = <<0, 0>>
                          /\ t.type = "success"
      ]_vars

\* a handler was invoked on an empty sequence or with an id the sequence
\* lacks, and a plan with an outstanding call is there
C28_Witness ==
    /\ Degenerate >= 1
    /\ prompts # <<>>
    /\ Outstanding > 0

====
